---- MODULE Spec2Model ----
(***************************************************************************)
(* A model of input_reader.py of OpenSeeFace: the readers (VideoReader,    *)
(* EscapiReader, DShowCaptureReader, OpenCVReader, RawReader), the probe   *)
(* test_reader and the fallback chain of InputReader.__init__.             *)
(*                                                                         *)
(* Strings are sequences of one-character strings.  The native libraries   *)
(* (cv2, escapi, dshowcapture) and sys.stdin are the environment: what they*)
(* return or raise is chosen with \E at the call.                          *)
(***************************************************************************)
EXTENDS Integers, Sequences, FiniteSets, TLC

\* ---------------------------------------------------------------- bounds
MaxLen == 3          \* longest capture string drawn from Alphabet
MaxDim == 2          \* width and height range over 0..MaxDim
MaxDevices == 2      \* most devices escapi.count_capture_devices() reports
MaxRawReads == 2     \* RawReader.read calls in one behaviour
MaxCalls == 4        \* calls made on a constructed InputReader in one behaviour

\* ------------------------------------------------------ program constants
ProbeAttempts == 30  \* range(30) in test_reader

\* ------------------------------------------------------------ the strings
Alphabet == {"0", "1", "-", "+", " ", "_", "a"}
DigitChars == <<"0", "1", "2", "3", "4", "5", "6", "7", "8", "9">>
NoneStr == <<"N", "o", "n", "e">>          \* str(None)

StrsUpTo(n) == UNION {[1..k -> Alphabet] : k \in 0..n}
Specifiers == StrsUpTo(MaxLen) \cup {NoneStr}

IsDigit(c) == \E d \in 1..10 : DigitChars[d] = c
DigitVal(c) == (CHOOSE d \in 1..10 : DigitChars[d] = c) - 1

RECURSIVE LStrip(_)
LStrip(s) == IF s # <<>> /\ Head(s) = " " THEN LStrip(Tail(s)) ELSE s

RECURSIVE RStrip(_)
RStrip(s) ==
    IF s # <<>> /\ s[Len(s)] = " " THEN RStrip(SubSeq(s, 1, Len(s) - 1)) ELSE s

Strip(s) == RStrip(LStrip(s))

\* The digit part of an integer literal: digits, single underscores only
\* between two digits.
ValidDigits(s) ==
    /\ s # <<>>
    /\ IsDigit(s[1])
    /\ IsDigit(s[Len(s)])
    /\ \A k \in 1..Len(s) : IsDigit(s[k]) \/ s[k] = "_"
    /\ \A k \in 1..(Len(s) - 1) : ~(s[k] = "_" /\ s[k + 1] = "_")

RECURSIVE DigitsValue(_, _)
DigitsValue(s, acc) ==
    IF s = <<>> THEN acc
    ELSE IF Head(s) = "_" THEN DigitsValue(Tail(s), acc)
    ELSE DigitsValue(Tail(s), acc * 10 + DigitVal(Head(s)))

\* int(s) of a str: surrounding whitespace is dropped, one optional sign,
\* then the digit part.  ok = FALSE stands for ValueError.
PyInt(s) ==
    LET t == Strip(s)
        signed == t # <<>> /\ Head(t) \in {"+", "-"}
        body == IF signed THEN Tail(t) ELSE t
    IN  IF ValidDigits(body)
        THEN [ok |-> TRUE,
              val |-> IF signed /\ Head(t) = "-"
                      THEN 0 - DigitsValue(body, 0) ELSE DigitsValue(body, 0)]
        ELSE [ok |-> FALSE, val |-> 0]

\* try_int(s): int(s), or None (ok = FALSE) when int raises.
try_int(s) == PyInt(s)

RECURSIVE NatStr(_)
NatStr(n) ==
    IF n < 10 THEN <<DigitChars[n + 1]>>
    ELSE NatStr(n \div 10) \o <<DigitChars[(n % 10) + 1]>>

\* str(x) of an int or of None.
PyStr(r) ==
    IF ~r.ok THEN NoneStr
    ELSE IF r.val < 0 THEN <<"-">> \o NatStr(0 - r.val) ELSE NatStr(r.val)


\* ------------------------------------------------------------- the state
VARIABLES
    capture,           \* InputReader.__init__ argument: the specifier string
    raw_rgb,           \* InputReader.__init__ argument
    use_dshowcapture,  \* InputReader.__init__ argument
    osname,            \* os.name
    fileExists,        \* whether capture names an existing file
    pc,                \* position of InputReader.__init__
    branch,            \* which arm of the if/elif chain of __init__ was taken
    reader,            \* the class of self.reader, "None" for None
    name,              \* local name of __init__
    good,              \* local good of __init__
    found,             \* local found of __init__ (-1 for None)
    escDevices,        \* the names escapi.device_name(i) returned, in order
    instantiated,      \* reader classes whose constructor has returned
    live,              \* constructed readers whose close() was not called
    i,                 \* test_reader: loop index
    got_any,           \* test_reader: local got_any
    closedSeen,        \* test_reader: is_open() would have been False in the loop
    endOpen,           \* test_reader: what is_open() gave after the loop
    probeB,            \* result of test_reader on the DShowCaptureReader
    probeC,            \* result of test_reader on the EscapiReader
    capturing,         \* dshowcapture: device.capturing()
    capDone,           \* escapi: is_capture_done(device)
    capOpen,           \* cv2: cap.isOpened()
    opencvOutcome,     \* how the OpenCVReader construction ended
    exitMsg,           \* message printed before sys.exit, "" while running
    rawW, rawH,        \* RawReader: self.width, self.height
    rawLen,            \* RawReader: self.len
    rawOpen,           \* RawReader: self.open
    rawpc,             \* position of RawReader.read
    stdinPos,          \* bytes consumed from sys.stdin.buffer so far
    frame,             \* RawReader.read: local frame
    read_bytes,        \* RawReader.read: local read_bytes
    rawResult,         \* what the last RawReader.read returned or raised
    rawStart,          \* stdinPos when the last RawReader.read was entered
    rawReads,          \* RawReader.read calls completed
    reads,             \* test_reader: read() calls made so far
    raised,            \* where in the chain an exception was raised so far
    stages,            \* the blocks of the chain entered so far
    readerArg,         \* the device argument self.reader was constructed with
    escPending,        \* escapi: capture requests issued and not yet done
    calls,             \* calls made on the InputReader after construction
    lastCall,          \* the last such call
    lastRet,           \* what it returned (for read: frame or no frame)
    lastTarget,        \* the reader object it was forwarded to
    closeCalls,        \* InputReader.close calls
    releaseCalls,      \* close() calls received by the selected reader
    readAfterReady,    \* result of a read made right after is_ready() was True
    escIssued,         \* escapi.do_capture calls, from the one outstanding at return
    escFrames,         \* frames EscapiReader.read returned
    escOverlap         \* a do_capture was issued while another was pending

selVars == <<capture, raw_rgb, use_dshowcapture, osname, fileExists, pc, branch,
             reader, name, good, found, escDevices, instantiated, live,
             probeB, probeC, capturing, capDone, capOpen, opencvOutcome,
             exitMsg>>
selRest == <<capture, raw_rgb, use_dshowcapture, osname, fileExists,
                    branch, reader, name, good, found, escDevices, instantiated,
                    live, probeB, probeC, capturing, capDone, capOpen,
                    opencvOutcome, exitMsg>>
probeVars == <<i, got_any, closedSeen, endOpen, reads>>
chainVars == <<raised, stages, readerArg, escPending>>
useVars == <<calls, lastCall, lastRet, lastTarget, closeCalls, releaseCalls,
             readAfterReady, escIssued, escFrames, escOverlap>>
rawVars == <<rawW, rawH, rawLen, rawOpen>>
rawReadVars == <<rawpc, stdinPos, frame, read_bytes, rawResult, rawStart,
                 rawReads>>
vars == <<selVars, probeVars, rawVars, rawReadVars, chainVars, useVars>>

Dims == 0..MaxDim
DShowNames == {"camA", "camB"}       \* what DShowCapture.get_device resolves
EscapiNames == {"", "camA"}          \* what escapi.device_name decodes to
Enumerations == UNION {[1..k -> EscapiNames] : k \in 0..MaxDevices}

\* RawReader.read has returned nothing yet.
NoArray == [status |-> "none", shape |-> <<>>, data |-> <<>>]

\* self.reader was constructed without a device argument.
NoArg == [set |-> FALSE, val |-> 0]
DeviceArg(n) == [set |-> TRUE, val |-> n]

\* No call has been made on the InputReader.
NotUsed ==
    /\ calls = 0 /\ lastCall = "none" /\ lastRet = "none" /\ lastTarget = "none"
    /\ closeCalls = 0 /\ releaseCalls = 0 /\ readAfterReady = "none"
    /\ escIssued = 0 /\ escFrames = 0 /\ escOverlap = FALSE

RawIdle ==
    /\ rawpc = "idle" /\ stdinPos = 0 /\ frame = <<>> /\ read_bytes = 0
    /\ rawResult = NoArray /\ rawStart = 0 /\ rawReads = 0

\* The state when InputReader.__init__ is entered (self.reader = None).
Init ==
    /\ capture \in Specifiers
    /\ raw_rgb \in {0, 1}
    /\ use_dshowcapture \in BOOLEAN
    /\ osname \in {"nt", "posix"}
    /\ fileExists \in BOOLEAN
    /\ pc = "start" /\ branch = "none" /\ reader = "None"
    /\ name = "" /\ good = TRUE /\ found = -1 /\ escDevices = <<>>
    /\ instantiated = {} /\ live = {}
    /\ i = 0 /\ got_any = FALSE /\ closedSeen = FALSE /\ endOpen = "pending"
    /\ reads = 0
    /\ probeB = "none" /\ probeC = "none"
    /\ capturing = FALSE /\ capDone = FALSE /\ capOpen = FALSE
    /\ opencvOutcome = "none" /\ exitMsg = ""
    /\ rawW = 0 /\ rawH = 0 /\ rawLen = 0 /\ rawOpen = FALSE
    /\ RawIdle
    /\ raised = {} /\ stages = {} /\ readerArg = NoArg /\ escPending = 0
    /\ NotUsed

\* A bare `except:` around the chain.
OuterCatchesAll(exc) == TRUE

\* ------------------------------------------------- exceptions and exits
\* `except Exception` of __init__ catches Exception, not SystemExit; the bare
\* `except:` of the inner blocks and of test_reader catches both.
ExceptionSubclasses == {"Exception", "ValueError", "NativeError"}
OuterCatches(exc) == exc \in ExceptionSubclasses
RawSizeMsg == "No acceptable size was given for reading raw RGB frames."
NoInputMsg == "There was no valid input."

\* The chain with int() succeeding as the test for a device index.
ClassifyByParse(raw, exists, cap) ==
    IF raw > 0 THEN "raw"
    ELSE IF exists THEN "path"
    ELSE IF try_int(cap).ok THEN "index"
    ELSE "invalid"

\* The chain with the file test first.
ClassifyPathFirst(raw, exists, cap) ==
    IF exists THEN "path"
    ELSE IF raw > 0 THEN "raw"
    ELSE IF cap = PyStr(try_int(cap)) THEN "index"
    ELSE "invalid"

\* ------------------------------------------------------ the classification
\* The conditions of the if/elif chain of InputReader.__init__.
Classify(raw, exists, cap) ==
    IF raw > 0 THEN "raw"
    ELSE IF exists THEN "path"
    ELSE IF cap = PyStr(try_int(cap)) THEN "index"
    ELSE "invalid"

\* RawReader.__init__: the geometry that makes it call sys.exit.
RawGeometryBad(w, h) == w < 1 \/ h < 1

\* is_open() of self.reader.
ReaderIsOpen(r) ==
    CASE r = "RawReader" -> rawOpen
      [] r = "VideoReader" -> capOpen
      [] r = "OpenCVReader" -> capOpen
      [] r = "DShowCaptureReader" -> capturing
      [] r = "EscapiReader" -> TRUE
      [] OTHER -> FALSE

\* self.reader = RawReader(width, height)
SelectRaw ==
    /\ pc = "start"
    /\ Classify(raw_rgb, fileExists, capture) = "raw"
    /\ branch' = "raw"
    /\ \E w \in Dims, h \in Dims :
        /\ rawW' = w /\ rawH' = h
        /\ IF RawGeometryBad(w, h)
           THEN /\ UNCHANGED <<rawLen, rawOpen, reader, instantiated>>
                /\ IF OuterCatches("SystemExit")
                   THEN pc' = "final" /\ exitMsg' = exitMsg
                   ELSE pc' = "exited" /\ exitMsg' = RawSizeMsg
           ELSE /\ rawLen' = w * h * 3
                /\ rawOpen' = TRUE
                /\ reader' = "RawReader"
                /\ instantiated' = instantiated \cup {"RawReader"}
                /\ pc' = "final" /\ exitMsg' = exitMsg
    /\ UNCHANGED <<capture, raw_rgb, use_dshowcapture, osname, fileExists, name,
                   good, found, escDevices, live, probeB, probeC, capturing,
                   capDone, capOpen, opencvOutcome, probeVars, rawReadVars,
                   chainVars, useVars>>

\* self.reader = VideoReader(capture)
SelectPath ==
    /\ pc = "start"
    /\ Classify(raw_rgb, fileExists, capture) = "path"
    /\ branch' = "path"
    /\ \E out \in {"raise", "open", "closed"} :
        IF out = "raise"
        THEN UNCHANGED <<reader, instantiated, live, capOpen>>
        ELSE /\ reader' = "VideoReader"
             /\ instantiated' = instantiated \cup {"VideoReader"}
             /\ live' = live \cup {"VideoReader"}
             /\ capOpen' = (out = "open")
    /\ pc' = "final"
    /\ UNCHANGED <<capture, raw_rgb, use_dshowcapture, osname, fileExists, name,
                   good, found, escDevices, probeB, probeC, capturing, capDone,
                   opencvOutcome, exitMsg, probeVars, rawVars, rawReadVars,
                   chainVars, useVars>>

\* The chain that tries DShowCapture on every platform.
SelectIndexAnyPlatform ==
    /\ pc = "start"
    /\ Classify(raw_rgb, fileExists, capture) = "index"
    /\ branch' = "index"
    /\ pc' = "dshow"
    /\ UNCHANGED <<capture, raw_rgb, use_dshowcapture, osname, fileExists,
                   reader, name, good, found, escDevices, instantiated, live,
                   probeB, probeC, capturing, capDone, capOpen, opencvOutcome,
                   exitMsg, probeVars, rawVars, rawReadVars, chainVars,
                   useVars>>

\* elif capture == str(try_int(capture)): if os.name == 'nt': ... else: ...
SelectIndex ==
    /\ pc = "start"
    /\ Classify(raw_rgb, fileExists, capture) = "index"
    /\ branch' = "index"
    /\ pc' = IF osname = "nt" THEN "dshow" ELSE "opencv"
    /\ UNCHANGED <<capture, raw_rgb, use_dshowcapture, osname, fileExists,
                   reader, name, good, found, escDevices, instantiated, live,
                   probeB, probeC, capturing, capDone, capOpen, opencvOutcome,
                   exitMsg, probeVars, rawVars, rawReadVars,
                   chainVars, useVars>>

\* No arm of the chain matches: self.reader stays None.
SelectInvalid ==
    /\ pc = "start"
    /\ Classify(raw_rgb, fileExists, capture) = "invalid"
    /\ branch' = "invalid"
    /\ pc' = "final"
    /\ UNCHANGED <<capture, raw_rgb, use_dshowcapture, osname, fileExists,
                   reader, name, good, found, escDevices, instantiated, live,
                   probeB, probeC, capturing, capDone, capOpen, opencvOutcome,
                   exitMsg, probeVars, rawVars, rawReadVars,
                   chainVars, useVars>>

\* test_reader with `return True` for an open source.
ProbeReturnOpenOnly(open, gotAny) == open

\* test_reader without the is_open() test.
ProbeReturnIgnoresOpen(open, gotAny) == gotAny

\* ------------------------------------------------------------ test_reader
\* What test_reader returns once its loop has run to the end.
ProbeReturn(open, gotAny) == IF open THEN gotAny ELSE FALSE

\* A loop that stops at the first frame.
ProbeLoopDoneAtFirstFrame(n, gotAny) == n = ProbeAttempts \/ gotAny

\* for i in range(30): the loop is over after 30 passes, whatever was read.
ProbeLoopDone(n, gotAny) == n = ProbeAttempts

\* An `except ValueError:` in place of the bare `except:`.
InnerCatchesValueError(exc) == exc = "ValueError"

\* The bare `except:` of the two inner try blocks of __init__.
InnerCatches(exc) == TRUE

\* The bare `except:` of test_reader.
ProbeCatches(exc) == TRUE

\* An exception leaves an inner try block of __init__ entered at `place`:
\* except: good = False, and the chain goes on at `after`; what the block does
\* not catch goes to the `except Exception` of __init__ or out of it.
InnerRaise(exc, place, after) ==
    /\ raised' = raised \cup {place}
    /\ IF InnerCatches(exc)
       THEN good' = FALSE /\ pc' = after /\ exitMsg' = exitMsg
       ELSE IF OuterCatches(exc)
       THEN good' = good /\ pc' = "final" /\ exitMsg' = exitMsg
       ELSE good' = good /\ pc' = "exited" /\ exitMsg' = "uncaught"

\* good = test_reader(self.reader) has its value; the chain goes on.
FinishProbe(res) ==
    /\ good' = res
    /\ IF reader = "DShowCaptureReader"
       THEN /\ probeB' = (IF res THEN "pass" ELSE "fail")
            /\ pc' = "afterB"
            /\ UNCHANGED probeC
       ELSE /\ probeC' = (IF res THEN "pass" ELSE "fail")
            /\ pc' = "afterC"
            /\ UNCHANGED probeB

\* A call of the reader raises inside test_reader: except: ... return False.
ProbeRaise(exc) ==
    LET place == IF reader = "DShowCaptureReader" THEN "probeB" ELSE "probeC"
        after == IF reader = "DShowCaptureReader" THEN "afterB" ELSE "afterC"
    IN  IF ProbeCatches(exc)
        THEN /\ raised' = raised \cup {place}
             /\ FinishProbe(FALSE)
             /\ exitMsg' = exitMsg
        ELSE /\ InnerRaise(exc, place, after)
             /\ UNCHANGED <<probeB, probeC>>

\* EscapiReader.read that re-arms the capture whether or not it was done.
EscapiReadAlwaysRearm(done) == [ret |-> done, done |-> FALSE, rearm |-> TRUE]

\* EscapiReader.read on a device whose capture is done or not: the frame is
\* returned and the capture re-armed (escapi.do_capture), or (False, None).
EscapiRead(done) ==
    [ret |-> done, done |-> IF done THEN FALSE ELSE done, rearm |-> done]

\* EscapiReader.is_ready that does not ask the device.
EscapiIsReadyAlways(done) == TRUE

\* EscapiReader.is_ready: escapi.is_capture_done(self.device)
EscapiIsReady(done) == done

\* One iteration of the loop of test_reader: is_ready(), read().
ProbeStep ==
    /\ pc = "probe"
    /\ ~ProbeLoopDone(i, got_any)
    /\ \/ \* is_ready() or read() raises
          /\ \E inRead \in BOOLEAN :
                reads' = reads + (IF inRead THEN 1 ELSE 0)
          /\ endOpen' = "threw"
          /\ ProbeRaise("NativeError")
          /\ UNCHANGED <<i, got_any, closedSeen, capturing, capDone,
                         escPending>>
       \/ /\ reader = "DShowCaptureReader"
          /\ \E c \in BOOLEAN, img \in BOOLEAN :
              /\ capturing' = c                      \* is_ready(): capturing()
              /\ closedSeen' = (closedSeen \/ ~c)
              /\ got_any' = (got_any \/ img)         \* get_frame(timeout)
          /\ i' = i + 1
          /\ reads' = reads + 1
          /\ UNCHANGED <<pc, good, probeB, probeC, endOpen, capDone, exitMsg,
                         raised, escPending>>
       \/ /\ reader = "EscapiReader"
          /\ \E c1 \in BOOLEAN, c2 \in BOOLEAN :
              LET atReady == capDone \/ (c1 /\ escPending > 0)   \* is_ready()
                  atRead == atReady \/ (c2 /\ escPending > 0)    \* after sleep
                  pend == IF atRead /\ ~capDone THEN escPending - 1
                          ELSE escPending
                  r == EscapiRead(atRead)
              IN  /\ capDone' = r.done
                  /\ escPending' = pend + (IF r.rearm THEN 1 ELSE 0)
                  /\ got_any' = (got_any \/ r.ret)
          /\ i' = i + 1
          /\ reads' = reads + 1
          /\ UNCHANGED <<pc, good, probeB, probeC, endOpen, closedSeen,
                         capturing, exitMsg, raised>>
    /\ UNCHANGED <<capture, raw_rgb, use_dshowcapture, osname, fileExists,
                   branch, reader, name, found, escDevices, instantiated, live,
                   capOpen, opencvOutcome, rawVars, rawReadVars, stages,
                   readerArg, useVars>>

\* After the loop: if reader.is_open(): return got_any; return False.
ProbeEnd ==
    /\ pc = "probe"
    /\ ProbeLoopDone(i, got_any)
    /\ \/ \* is_open() raises
          /\ reader = "DShowCaptureReader"
          /\ endOpen' = "threw"
          /\ ProbeRaise("NativeError")
          /\ UNCHANGED capturing
       \/ /\ reader = "DShowCaptureReader"
          /\ \E c \in BOOLEAN :
              /\ capturing' = c
              /\ endOpen' = (IF c THEN "open" ELSE "closed")
              /\ FinishProbe(ProbeReturn(c, got_any))
          /\ UNCHANGED <<exitMsg, raised>>
       \/ /\ reader = "EscapiReader"
          /\ endOpen' = "open"
          /\ FinishProbe(ProbeReturn(ReaderIsOpen(reader), got_any))
          /\ UNCHANGED <<capturing, exitMsg, raised>>
    /\ UNCHANGED <<capture, raw_rgb, use_dshowcapture, osname, fileExists,
                   branch, reader, name, found, escDevices, instantiated, live,
                   capDone, capOpen, opencvOutcome, i, got_any, closedSeen,
                   reads, rawVars, rawReadVars, stages, readerArg, escPending,
                   useVars>>

\* test_reader is entered: got_any = False, the loop starts.
StartProbe ==
    /\ pc' = "probe"
    /\ i' = 0 /\ got_any' = FALSE /\ closedSeen' = FALSE /\ endOpen' = "pending"
    /\ reads' = 0

\* test_reader has returned: its locals are gone.
ProbeLocalsGone ==
    /\ i' = 0 /\ got_any' = FALSE /\ closedSeen' = FALSE /\ endOpen' = "pending"
    /\ reads' = 0

\* The enumeration loop without the comparison of names.
LastMatchAnyName(devs, n) == Len(devs) - 1

\* ------------------------------------------------------ the fallback chain
\* The last index k (0-based) with devs[k] = n, -1 when there is none: the loop
\* `for i in range(devices): if name == escapi_name: found = i`.
RECURSIVE LastMatch(_, _)
LastMatch(devs, n) ==
    IF devs = <<>> THEN -1
    ELSE IF devs[Len(devs)] = n THEN Len(devs) - 1
    ELSE LastMatch(SubSeq(devs, 1, Len(devs) - 1), n)

\* "Try with DShowCapture": the first inner try block up to the call of
\* test_reader, or to good = False.
TryDShow ==
    /\ pc = "dshow"
    /\ stages' = stages \cup {"dshow"}
    /\ \/ /\ ~use_dshowcapture
          /\ good' = FALSE /\ pc' = "afterB"
          /\ UNCHANGED <<reader, name, instantiated, live, capturing, probeVars,
                         exitMsg, raised, readerArg>>
       \/ \* int(capture) or the constructor raises
          /\ use_dshowcapture
          /\ InnerRaise(IF PyInt(capture).ok THEN "NativeError" ELSE "ValueError",
                        "dshow", "afterB")
          /\ UNCHANGED <<reader, name, instantiated, live, capturing, probeVars,
                         readerArg>>
       \/ /\ use_dshowcapture
          /\ PyInt(capture).ok
          /\ reader' = "DShowCaptureReader"
          /\ readerArg' = DeviceArg(PyInt(capture).val)
          /\ instantiated' = instantiated \cup {"DShowCaptureReader"}
          /\ live' = live \cup {"DShowCaptureReader"}
          /\ name' \in DShowNames
          /\ capturing' \in BOOLEAN
          /\ good' = TRUE
          /\ StartProbe
          /\ UNCHANGED <<exitMsg, raised>>
    /\ UNCHANGED <<capture, raw_rgb, use_dshowcapture, osname, fileExists,
                   branch, found, escDevices, probeB, probeC, capDone, capOpen,
                   opencvOutcome, rawVars, rawReadVars, escPending, useVars>>

\* The chain without `if good: return` after the DShowCapture block.
AfterDShowFallsThrough ==
    /\ pc = "afterB"
    /\ pc' = "escapi"
    /\ ProbeLocalsGone
    /\ UNCHANGED <<selRest, rawVars, rawReadVars, chainVars, useVars>>

\* if good: return
AfterDShow ==
    /\ pc = "afterB"
    /\ pc' = IF good THEN "returned" ELSE "escapi"
    /\ ProbeLocalsGone
    /\ UNCHANGED <<selRest, rawVars, rawReadVars, chainVars, useVars>>

\* "Try with Escapi": the second inner try block up to the call of
\* test_reader, or to good = False.
TryEscapi ==
    /\ pc = "escapi"
    /\ stages' = stages \cup {"escapi"}
    /\ \/ \* escapi.init(), count_capture_devices() or device_name() raises
          /\ InnerRaise("NativeError", "escapi", "afterC")
          /\ UNCHANGED <<reader, found, escDevices, instantiated, live, capDone,
                         probeVars, readerArg, escPending>>
       \/ \E devs \in Enumerations :
            LET f == LastMatch(devs, name)
            IN  /\ escDevices' = devs
                /\ found' = f
                /\ \/ /\ f = -1                      \* found is None
                      /\ good' = FALSE /\ pc' = "afterC"
                      /\ UNCHANGED <<reader, instantiated, live, capDone,
                                     probeVars, exitMsg, raised, readerArg,
                                     escPending>>
                   \/ \* EscapiReader(found, ...) raises
                      /\ f # -1
                      /\ InnerRaise("NativeError", "escapi", "afterC")
                      /\ UNCHANGED <<reader, instantiated, live, capDone,
                                     probeVars, readerArg, escPending>>
                   \/ /\ f # -1
                      /\ reader' = "EscapiReader"
                      /\ readerArg' = DeviceArg(f)
                      /\ instantiated' = instantiated \cup {"EscapiReader"}
                      /\ live' = live \cup {"EscapiReader"}
                      /\ capDone' = FALSE            \* escapi.do_capture
                      /\ escPending' = 1
                      /\ good' = TRUE
                      /\ StartProbe
                      /\ UNCHANGED <<exitMsg, raised>>
    /\ UNCHANGED <<capture, raw_rgb, use_dshowcapture, osname, fileExists,
                   branch, name, probeB, probeC, capturing, capOpen,
                   opencvOutcome, rawVars, rawReadVars, useVars>>

\* if good: return
AfterEscapi ==
    /\ pc = "afterC"
    /\ pc' = IF good THEN "returned" ELSE "opencv"
    /\ ProbeLocalsGone
    /\ UNCHANGED <<selRest, rawVars, rawReadVars, chainVars, useVars>>

\* self.reader = OpenCVReader(int(capture), width, height, fps), on either
\* platform; what it raises goes to `except Exception`.
TryOpenCV ==
    /\ pc = "opencv"
    /\ stages' = stages \cup {"opencv"}
    /\ \/ \* int(capture), cv2.VideoCapture or cap.set raises
          /\ opencvOutcome' = "raise"
          /\ IF OuterCatches("Exception")
             THEN pc' = "final" /\ exitMsg' = exitMsg
             ELSE pc' = "exited" /\ exitMsg' = "uncaught"
          /\ UNCHANGED <<reader, instantiated, live, capOpen, readerArg>>
       \/ /\ PyInt(capture).ok
          /\ \E open \in BOOLEAN :
              /\ capOpen' = open
              /\ opencvOutcome' = (IF open THEN "open" ELSE "closed")
          /\ reader' = "OpenCVReader"
          /\ readerArg' = DeviceArg(PyInt(capture).val)
          /\ instantiated' = instantiated \cup {"OpenCVReader"}
          /\ live' = live \cup {"OpenCVReader"}
          /\ pc' = "final" /\ exitMsg' = exitMsg
    /\ UNCHANGED <<capture, raw_rgb, use_dshowcapture, osname, fileExists,
                   branch, name, good, found, escDevices, probeB, probeC,
                   capturing, capDone, probeVars, rawVars, rawReadVars, raised,
                   escPending, useVars>>

\* A final check that only looks for a missing reader.
NoValidInputNoneOnly(isNone, open) == isNone

\* The condition of the final check of __init__.
NoValidInput(isNone, open) == isNone \/ ~open

\* if self.reader is None or not self.reader.is_open(): ... sys.exit(0)
FinalCheck ==
    /\ pc = "final"
    /\ \E c \in (IF reader = "DShowCaptureReader" THEN BOOLEAN ELSE {capturing}) :
        LET open == IF reader = "DShowCaptureReader" THEN c
                    ELSE ReaderIsOpen(reader)
        IN  /\ capturing' = c
            /\ IF NoValidInput(reader = "None", open)
               THEN pc' = "exited" /\ exitMsg' = NoInputMsg
               ELSE pc' = "returned" /\ exitMsg' = exitMsg
    /\ UNCHANGED <<capture, raw_rgb, use_dshowcapture, osname, fileExists,
                   branch, reader, name, good, found, escDevices, instantiated,
                   live, probeB, probeC, capDone, capOpen, opencvOutcome,
                   probeVars, rawVars, rawReadVars, chainVars, useVars>>

Next ==
    \/ SelectRaw
    \/ SelectPath
    \/ SelectIndex
    \/ SelectInvalid
    \/ TryDShow
    \/ ProbeStep
    \/ ProbeEnd
    \/ AfterDShow
    \/ TryEscapi
    \/ AfterEscapi
    \/ TryOpenCV
    \/ FinalCheck

Spec == Init /\ [][Next]_vars

\* -------------------------------------------------------- RawReader.read
\* The byte at offset p of the stream on sys.stdin: every offset within a
\* frame's reach carries a different value, so a byte that is dropped, repeated
\* or taken from the wrong place shows.
StdinByte(p) == p % 256
StdinBytes(from, n) == [k \in 1..n |-> StdinByte(from + k - 1)]

\* np.frombuffer(frame, dtype=np.uint8).reshape((height, width, 3)): ValueError
\* unless the buffer holds exactly height * width * 3 bytes.
Reshape(buf, h, w) ==
    IF Len(buf) = h * w * 3
    THEN [status |-> "ok", shape |-> <<h, w, 3>>, data |-> buf]
    ELSE [status |-> "ValueError", shape |-> <<>>, data |-> <<>>]

\* How many bytes one sys.stdin.buffer.read(self.len) asks for.
ReadRequest == rawLen

\* A RawReader constructed by InputReader in raw mode with valid geometry.
InitRaw ==
    /\ capture = <<>> /\ raw_rgb = 1 /\ use_dshowcapture = FALSE
    /\ osname \in {"nt", "posix"} /\ fileExists = FALSE
    /\ pc = "returned" /\ branch = "raw" /\ reader = "RawReader"
    /\ name = "" /\ good = TRUE /\ found = -1 /\ escDevices = <<>>
    /\ instantiated = {"RawReader"} /\ live = {}
    /\ i = 0 /\ got_any = FALSE /\ closedSeen = FALSE /\ endOpen = "pending"
    /\ reads = 0
    /\ raised = {} /\ stages = {} /\ readerArg = NoArg /\ escPending = 0
    /\ NotUsed
    /\ probeB = "none" /\ probeC = "none"
    /\ capturing = FALSE /\ capDone = FALSE /\ capOpen = FALSE
    /\ opencvOutcome = "none" /\ exitMsg = ""
    /\ rawW \in 1..MaxDim /\ rawH \in 1..MaxDim
    /\ ~RawGeometryBad(rawW, rawH)
    /\ rawLen = rawW * rawH * 3 /\ rawOpen = TRUE
    /\ rawpc = "idle" /\ stdinPos = 0 /\ frame = <<>> /\ read_bytes = 0
    /\ rawResult = NoArray /\ rawStart = 0 /\ rawReads = 0

\* read() is entered: frame = bytearray(); read_bytes = 0
RawReadEnter ==
    /\ reader = "RawReader" /\ pc = "returned"
    /\ rawpc = "idle"
    /\ rawReads < MaxRawReads
    /\ rawpc' = "loop"
    /\ frame' = <<>> /\ read_bytes' = 0
    /\ rawStart' = stdinPos
    /\ rawResult' = NoArray
    /\ UNCHANGED <<selVars, probeVars, chainVars, useVars, rawVars,
                   stdinPos, rawReads>>

\* One pass of the loop: the channel hands over n bytes, 1 <= n <= the number
\* asked for.
RawReadChunk ==
    /\ rawpc = "loop"
    /\ read_bytes < rawLen
    /\ \E n \in 1..ReadRequest :
        /\ read_bytes' = read_bytes + n
        /\ frame' = frame \o StdinBytes(stdinPos, n)
        /\ stdinPos' = stdinPos + n
    /\ UNCHANGED <<selVars, probeVars, chainVars, useVars, rawVars,
                   rawpc, rawResult, rawStart,
                   rawReads>>

\* The loop is left: return True, np.frombuffer(frame, ...).reshape(...)
RawReadReturn ==
    /\ rawpc = "loop"
    /\ read_bytes >= rawLen
    /\ rawResult' = Reshape(frame, rawH, rawW)
    /\ rawpc' = "idle"
    /\ rawReads' = rawReads + 1
    /\ UNCHANGED <<selVars, probeVars, chainVars, useVars, rawVars,
                   stdinPos, frame, read_bytes,
                   rawStart>>

NextRaw ==
    \/ RawReadEnter
    \/ RawReadChunk
    \/ RawReadReturn

SpecRaw == InitRaw /\ [][NextRaw]_vars

\* ------------------------------------- the InputReader after construction
\* The readers __init__ can return with.
ReaderClasses ==
    {"RawReader", "VideoReader", "OpenCVReader", "DShowCaptureReader",
     "EscapiReader"}

\* An InputReader whose __init__ has returned, one state for each class of
\* reader it can hold: a RawReader (raw mode), a VideoReader (an existing
\* path), an OpenCVReader (an index where os.name is not 'nt'), a
\* DShowCaptureReader or an EscapiReader that passed test_reader (an index on
\* 'nt').  The EscapiReader has one capture request outstanding, done or not.
InitUse ==
    /\ reader \in ReaderClasses
    /\ capture = <<"0">>
    /\ pc = "returned" /\ exitMsg = "" /\ good = TRUE
    /\ raw_rgb = (IF reader = "RawReader" THEN 1 ELSE 0)
    /\ fileExists = (reader = "VideoReader")
    /\ branch = (CASE reader = "RawReader" -> "raw"
                   [] reader = "VideoReader" -> "path"
                   [] OTHER -> "index")
    /\ osname = (IF reader \in {"DShowCaptureReader", "EscapiReader"}
                 THEN "nt" ELSE "posix")
    /\ use_dshowcapture = (reader = "DShowCaptureReader")
    /\ name = (IF reader = "DShowCaptureReader" THEN "camA" ELSE "")
    /\ escDevices = (IF reader = "EscapiReader" THEN <<"">> ELSE <<>>)
    /\ found = (IF reader = "EscapiReader" THEN 0 ELSE -1)
    /\ instantiated = {reader}
    /\ live = {reader} \ {"RawReader"}
    /\ i = 0 /\ got_any = FALSE /\ closedSeen = FALSE /\ endOpen = "pending"
    /\ reads = 0
    /\ probeB = (IF reader = "DShowCaptureReader" THEN "pass" ELSE "none")
    /\ probeC = (IF reader = "EscapiReader" THEN "pass" ELSE "none")
    /\ capturing = (reader = "DShowCaptureReader")
    /\ capOpen = (reader \in {"VideoReader", "OpenCVReader"})
    /\ opencvOutcome = (IF reader = "OpenCVReader" THEN "open" ELSE "none")
    /\ raised = {}
    /\ stages = (CASE reader = "OpenCVReader" -> {"opencv"}
                   [] reader = "DShowCaptureReader" -> {"dshow"}
                   [] reader = "EscapiReader" -> {"dshow", "escapi"}
                   [] OTHER -> {})
    /\ readerArg = (IF reader \in {"RawReader", "VideoReader"} THEN NoArg
                    ELSE DeviceArg(0))
    /\ IF reader = "RawReader"
       THEN rawW = 1 /\ rawH = 1 /\ rawLen = 3 /\ rawOpen = TRUE
       ELSE rawW = 0 /\ rawH = 0 /\ rawLen = 0 /\ rawOpen = FALSE
    /\ RawIdle
    /\ capDone \in (IF reader = "EscapiReader" THEN BOOLEAN ELSE {FALSE})
    /\ escPending = (IF reader = "EscapiReader" /\ ~capDone THEN 1 ELSE 0)
    /\ calls = 0 /\ lastCall = "none" /\ lastRet = "none" /\ lastTarget = "none"
    /\ closeCalls = 0 /\ releaseCalls = 0 /\ readAfterReady = "none"
    /\ escIssued = (IF reader = "EscapiReader" THEN 1 ELSE 0)
    /\ escFrames = 0 /\ escOverlap = FALSE

\* What the calls of the caller leave alone.
useFrame == <<capture, raw_rgb, use_dshowcapture, osname, fileExists, pc,
              branch, name, good, found, escDevices, instantiated, probeB,
              probeC, opencvOutcome, exitMsg, probeVars, rawW, rawH, rawLen,
              rawReadVars, raised, stages, readerArg>>

\* InputReader.<method>(): return self.reader.<method>()
Forwarded(method, ret) ==
    /\ calls' = calls + 1
    /\ lastCall' = method
    /\ lastTarget' = reader
    /\ lastRet' = ret

\* The caller may make another call.
MayCall == pc = "returned" /\ reader \in ReaderClasses /\ calls < MaxCalls

\* A closed native device answers as it likes.
Closed(r) == r \in {"DShowCaptureReader", "EscapiReader"} /\ r \notin live

BoolRet(b) == IF b THEN "true" ELSE "false"

\* InputReader.is_open
UseIsOpen ==
    /\ MayCall
    /\ \E c \in (IF reader = "DShowCaptureReader" THEN BOOLEAN ELSE {capturing}) :
        /\ capturing' = c
        /\ Forwarded("is_open",
                     BoolRet(IF reader = "DShowCaptureReader" THEN c
                             ELSE ReaderIsOpen(reader)))
    /\ UNCHANGED <<useFrame, reader, live, capDone, capOpen, rawOpen,
                   escPending, closeCalls, releaseCalls, readAfterReady,
                   escIssued, escFrames, escOverlap>>

\* InputReader.is_ready
UseIsReady ==
    /\ MayCall
    /\ \/ /\ reader \in {"RawReader", "VideoReader", "OpenCVReader"}
          /\ Forwarded("is_ready", BoolRet(TRUE))
          /\ UNCHANGED capturing
       \/ /\ reader = "DShowCaptureReader"
          /\ \E c \in BOOLEAN :
              /\ capturing' = c
              /\ Forwarded("is_ready", BoolRet(c))
       \/ /\ reader = "EscapiReader" /\ ~Closed(reader)
          /\ Forwarded("is_ready", BoolRet(EscapiIsReady(capDone)))
          /\ UNCHANGED capturing
       \/ /\ reader = "EscapiReader" /\ Closed(reader)
          /\ \E c \in BOOLEAN : Forwarded("is_ready", BoolRet(c))
          /\ UNCHANGED capturing
    /\ UNCHANGED <<useFrame, reader, live, capDone, capOpen, rawOpen,
                   escPending, closeCalls, releaseCalls, readAfterReady,
                   escIssued, escFrames, escOverlap>>

\* The read was made right after an is_ready() that returned True.
RightAfterReady == lastCall = "is_ready" /\ lastRet = "true"

\* InputReader.read; for a RawReader the whole of its read, which returns a
\* frame or raises in reshape.
UseRead ==
    /\ MayCall
    /\ \E out \in {"frame", "noframe", "raised"} :
        /\ CASE reader = "RawReader" -> out \in {"frame", "raised"}
             [] reader \in {"VideoReader", "OpenCVReader"} ->
                    out \in (IF capOpen THEN {"frame", "noframe"}
                             ELSE {"noframe"})
             [] reader = "DShowCaptureReader" -> out \in {"frame", "noframe"}
             [] reader = "EscapiReader" /\ Closed(reader) ->
                    out \in {"frame", "noframe"}
             [] OTHER -> out = (IF EscapiRead(capDone).ret THEN "frame"
                                ELSE "noframe")
        /\ Forwarded("read", out)
        /\ readAfterReady' = (IF RightAfterReady THEN out ELSE readAfterReady)
    /\ IF reader = "EscapiReader" /\ ~Closed(reader)
       THEN LET r == EscapiRead(capDone)
            IN  /\ capDone' = r.done
                /\ escFrames' = escFrames + (IF r.ret THEN 1 ELSE 0)
                /\ escIssued' = escIssued + (IF r.rearm THEN 1 ELSE 0)
                /\ escPending' = escPending + (IF r.rearm THEN 1 ELSE 0)
                /\ escOverlap' = (escOverlap \/ (r.rearm /\ escPending > 0))
       ELSE UNCHANGED <<capDone, escFrames, escIssued, escPending, escOverlap>>
    /\ UNCHANGED <<useFrame, reader, live, capturing, capOpen, rawOpen,
                   closeCalls, releaseCalls>>

\* close() of the reader: cap.release(), escapi.deinit_camera,
\* device.destroy_capture, or self.open = False.
Release(r) ==
    /\ releaseCalls' = releaseCalls + 1
    /\ live' = live \ {r}
    /\ capOpen' = (IF r \in {"VideoReader", "OpenCVReader"} THEN FALSE
                   ELSE capOpen)
    /\ capturing' = (IF r = "DShowCaptureReader" THEN FALSE ELSE capturing)
    /\ rawOpen' = (IF r = "RawReader" THEN FALSE ELSE rawOpen)

\* A close that also forgets the reader.
UseCloseDropsReader ==
    /\ MayCall
    /\ Release(reader)
    /\ reader' = "None"
    /\ closeCalls' = closeCalls + 1
    /\ Forwarded("close", "none")
    /\ UNCHANGED <<useFrame, capDone, escPending, readAfterReady, escIssued,
                   escFrames, escOverlap>>

\* InputReader.close: self.reader.close()
UseClose ==
    /\ MayCall
    /\ Release(reader)
    /\ closeCalls' = closeCalls + 1
    /\ Forwarded("close", "none")
    /\ UNCHANGED <<useFrame, reader, capDone, escPending, readAfterReady,
                   escIssued, escFrames, escOverlap>>

\* The escapi driver finishes a capture that was asked for.
EscapiCaptureDone ==
    /\ pc = "returned"
    /\ reader = "EscapiReader" /\ ~Closed(reader)
    /\ escPending > 0 /\ ~capDone
    /\ capDone' = TRUE
    /\ escPending' = escPending - 1
    /\ UNCHANGED <<useFrame, reader, live, capturing, capOpen, rawOpen,
                   useVars>>

NextUse ==
    \/ UseIsOpen
    \/ UseIsReady
    \/ UseRead
    \/ UseClose
    \/ EscapiCaptureDone

SpecUse == InitUse /\ [][NextUse]_vars

\* ================================================================ claims
ProbeReturned == pc \in {"afterB", "afterC"} /\ endOpen # "pending"
ConstructionOver == pc \in {"returned", "exited"}
NameMatch == \E k \in 1..Len(escDevices) : escDevices[k] = name

C2_OneLiveSource == Cardinality(live) <= 1

\* C3: for an integer device index on 'nt', when neither DShowCaptureReader
\* nor EscapiReader passed test_reader and OpenCVReader raised or is not open,
\* the construction ends in the "no valid input" exit.
C3_ExhaustedChainExits ==
    ( /\ ConstructionOver
      /\ branch = "index" /\ try_int(capture).ok /\ osname = "nt"
      /\ probeB # "pass" /\ probeC # "pass"
      /\ opencvOutcome \in {"raise", "closed"} )
    => (pc = "exited" /\ exitMsg = NoInputMsg)

\* C4: once the DShowCaptureReader has passed test_reader the construction
\* returns with it: escapi is not enumerated and neither EscapiReader nor
\* OpenCVReader is constructed.
C4_DShowPassCommits ==
    probeB = "pass" =>
        /\ pc \in {"afterB", "returned"}
        /\ reader = "DShowCaptureReader"
        /\ instantiated = {"DShowCaptureReader"}
        /\ escDevices = <<>> /\ found = -1
        /\ probeC = "none" /\ opencvOutcome = "none"

C4_Witness ==
    pc = "returned" /\ probeB = "pass" /\ use_dshowcapture

\* C5: an EscapiReader is constructed only when the escapi enumeration holds
\* a device whose name equals name; without such a device no EscapiReader is
\* constructed or probed and the chain goes on to OpenCVReader.
C5_EscapiOnlyOnNameMatch ==
    /\ "EscapiReader" \in instantiated => NameMatch
    /\ probeC # "none" => NameMatch
    /\ (pc = "afterC" /\ ~NameMatch) => (~good /\ reader # "EscapiReader")
    /\ ( /\ pc \in {"final", "returned", "exited"}
         /\ branch = "index" /\ osname = "nt" /\ probeB # "pass"
         /\ ~NameMatch )
       => opencvOutcome # "none"

C5_Witness ==
    /\ pc = "final" /\ opencvOutcome = "open"
    /\ escDevices # <<>> /\ ~NameMatch
    /\ "EscapiReader" \notin instantiated

\* C6 as stated: test_reader returns failure if the source was closed at any
\* point of the loop or a call raised.
C6_ClosedAnywhereFails ==
    (ProbeReturned /\ (closedSeen \/ endOpen \in {"closed", "threw"})) => ~good

\* C6 amended: test_reader returns failure if the source is closed when
\* is_open() is called after the loop, or if a call raised; a source closed
\* only during the loop and open again after it is not failed for that.
C6_ClosedAtEndFails ==
    (ProbeReturned /\ endOpen \in {"closed", "threw"}) => ~good

C6_Witness ==
    ProbeReturned /\ endOpen = "closed" /\ got_any /\ ~good

\* A decimal literal as str() writes it: an optional "-", digits, no leading
\* zero, no "-0".
CanonicalDecimal(s) ==
    LET neg == s # <<>> /\ Head(s) = "-"
        d == IF neg THEN Tail(s) ELSE s
    IN  /\ d # <<>>
        /\ \A k \in 1..Len(d) : IsDigit(d[k])
        /\ Len(d) > 1 => d[1] # "0"
        /\ ~(neg /\ d = <<"0">>)

\* C7 as stated: without raw mode and without an existing file, a specifier
\* is taken as a device index exactly when it parses as an integer.
C7_EveryIntegerIsIndex ==
    (branch # "none" /\ raw_rgb <= 0 /\ ~fileExists) =>
        (branch = "index" <=> try_int(capture).ok)

\* C7 amended: without raw mode and without an existing file, a specifier is
\* taken as a device index exactly when it is the canonical decimal spelling of
\* an integer or the string "None"; every other string, the integers spelled
\* with a leading zero, "+", whitespace or "_" among them, is invalid.
C7_CanonicalIntegerIsIndex ==
    (branch # "none" /\ raw_rgb <= 0 /\ ~fileExists) =>
        /\ branch \in {"index", "invalid"}
        /\ branch = "index" <=> (CanonicalDecimal(capture) \/ capture = NoneStr)
        /\ branch = "index" => pc # "start"

C7_Witness ==
    /\ branch = "invalid" /\ raw_rgb <= 0 /\ ~fileExists
    /\ try_int(capture).ok /\ ~CanonicalDecimal(capture)

\* C8: exactly one arm of {raw, path, index, invalid} is taken, raw mode
\* before an existing file before an integer: with raw mode a RawReader is
\* chosen whatever the specifier, and an existing file is a path even when its
\* name is an integer.
C8_ClassificationPrecedence ==
    /\ pc = "start" =>
         Cardinality({b \in {"raw", "path", "index", "invalid"} :
            \/ (b = "raw" /\ ENABLED SelectRaw)
            \/ (b = "path" /\ ENABLED SelectPath)
            \/ (b = "index" /\ ENABLED SelectIndex)
            \/ (b = "invalid" /\ ENABLED SelectInvalid)}) = 1
    /\ branch # "none" =>
        /\ branch \in {"raw", "path", "index", "invalid"}
        /\ raw_rgb > 0 => (branch = "raw" /\ instantiated \subseteq {"RawReader"})
        /\ (raw_rgb <= 0 /\ fileExists) =>
               (branch = "path" /\ instantiated \subseteq {"VideoReader"})
        /\ (raw_rgb <= 0 /\ ~fileExists) => branch \in {"index", "invalid"}

C8_Witness ==
    /\ branch = "path" /\ CanonicalDecimal(capture) /\ reader = "VideoReader"
    /\ pc = "returned"

\* C9: however the channel cuts the stream into chunks, one RawReader.read
\* returns the next width * height * 3 bytes of the stream, in order, shaped
\* (height, width, 3).
C9_ReadReturnsNextFrame ==
    (rawpc = "idle" /\ rawReads > 0) =>
        /\ rawResult.status = "ok"
        /\ rawResult.shape = <<rawH, rawW, 3>>
        /\ rawResult.data = StdinBytes(rawStart, rawLen)

\* C10: a RawReader with width >= 1 and height >= 1 is constructed without a
\* failure or exit; with width < 1 or height < 1 the construction exits the
\* process, through InputReader too: the exit is not caught and no other
\* source is tried.
C10_RawGeometry ==
    (branch = "raw") =>
        IF rawW < 1 \/ rawH < 1
        THEN /\ pc = "exited" /\ exitMsg = RawSizeMsg
             /\ reader = "None" /\ instantiated = {}
        ELSE /\ pc \in {"final", "returned"} /\ exitMsg = ""
             /\ reader = "RawReader" /\ rawOpen
             /\ rawLen = rawW * rawH * 3
             /\ instantiated = {"RawReader"}

C10_Witness ==
    branch = "raw" /\ pc = "exited" /\ rawW >= 1 /\ rawH < 1

\* C12: an exception raised while DShowCaptureReader or EscapiReader is
\* constructed, enumerated or probed never leaves InputReader.__init__: it sets
\* good to False, and the next stage of the chain (escapi after DShowCapture,
\* OpenCVReader after escapi) is still attempted before construction is over.
C12_BackendExceptionsFallThrough ==
    /\ exitMsg # "uncaught"
    /\ (pc = "afterB" /\ raised \cap {"dshow", "probeB"} # {}) => ~good
    /\ (pc = "afterC" /\ raised \cap {"escapi", "probeC"} # {}) => ~good
    /\ (ConstructionOver /\ raised \cap {"dshow", "probeB"} # {})
           => "escapi" \in stages
    /\ (ConstructionOver /\ raised \cap {"escapi", "probeC"} # {})
           => "opencv" \in stages

C12_Witness ==
    /\ pc = "returned"
    /\ "probeB" \in raised
    /\ "escapi" \in raised
    /\ reader = "OpenCVReader"

\* C13: InputReader.__init__ ends in one of two ways, whatever the specifier
\* and whatever the backends do: the process exits through sys.exit(0) (with
\* "There was no valid input.", or from RawReader with its message about the
\* size), or it returns with self.reader set to a reader whose is_open() is
\* true, on the two `if good: return` paths as well as after the final
\* check; no exception leaves it.  An invalid specifier always exits with
\* "There was no valid input.".
C13_ExitOrOpenReader ==
    /\ exitMsg # "uncaught"
    /\ pc = "exited" =>
          \/ exitMsg = NoInputMsg
          \/ exitMsg = RawSizeMsg /\ branch = "raw" /\ RawGeometryBad(rawW, rawH)
    /\ pc = "returned" =>
          /\ reader # "None"
          /\ exitMsg = ""
          /\ reader = "RawReader" => rawOpen
          /\ reader \in {"VideoReader", "OpenCVReader"} => capOpen
          /\ reader = "DShowCaptureReader" => capturing
    /\ (branch = "invalid" /\ pc # "final") =>
          pc = "exited" /\ exitMsg = NoInputMsg /\ reader = "None"

C13_Witness ==
    /\ pc = "returned"
    /\ reader = "OpenCVReader"
    /\ probeB = "fail" /\ probeC = "fail"
    /\ capOpen

\* C14: where os.name is not 'nt', a specifier that is an integer device index
\* goes straight to OpenCVReader(int(capture), ...): no DShowCaptureReader or
\* EscapiReader is constructed, escapi is not enumerated, test_reader is not
\* run, and use_dshowcapture makes no difference.
C14_DirectOpenCV ==
    (branch = "index" /\ osname # "nt" /\ PyInt(capture).ok) =>
        /\ pc \in {"opencv", "final", "returned", "exited"}
        /\ stages \subseteq {"opencv"}
        /\ instantiated \subseteq {"OpenCVReader"}
        /\ probeB = "none" /\ probeC = "none"
        /\ escDevices = <<>> /\ found = -1
        /\ raised = {}
        /\ reads = 0 /\ endOpen = "pending"
        /\ pc = "opencv" => reader = "None"
        /\ (pc # "opencv" /\ opencvOutcome # "raise") =>
              /\ reader = "OpenCVReader"
              /\ readerArg = DeviceArg(PyInt(capture).val)
        /\ (pc # "opencv" /\ opencvOutcome = "raise") => reader = "None"

C14_Witness ==
    /\ branch = "index" /\ osname # "nt" /\ use_dshowcapture
    /\ pc = "returned"
    /\ reader = "OpenCVReader"
    /\ readerArg = DeviceArg(PyInt(capture).val)

\* C17: test_reader always comes to an end: its loop counter only grows and
\* stops at 30, and a step is possible wherever it stands.  When no call
\* raises it has called read() exactly 30 times when it returns, one call in
\* each pass, whether or not is_ready() was true and whether or not a frame
\* was read before; when a call raises, it returns False at that pass.
C17_ProbeBounded ==
    /\ i \in 0..ProbeAttempts
    /\ pc = "probe" => /\ reads = i
                       /\ ENABLED (ProbeStep \/ ProbeEnd)
    /\ (ProbeReturned /\ endOpen \in {"open", "closed"}) =>
          i = ProbeAttempts /\ reads = ProbeAttempts
    /\ (ProbeReturned /\ endOpen = "threw") =>
          ~good /\ reads \in {i, i + 1} /\ reads <= ProbeAttempts

C17_Witness ==
    /\ ProbeReturned
    /\ endOpen = "open"
    /\ reads = ProbeAttempts
    /\ closedSeen
    /\ good

\* C18: when InputReader.__init__ returns, self.reader is never a
\* DShowCaptureReader or an EscapiReader whose test_reader returned False: it
\* is a RawReader, a VideoReader, a DShowCaptureReader or EscapiReader that
\* passed test_reader, or an OpenCVReader.
C18_NoFailedCandidateCommitted ==
    pc = "returned" =>
        \/ reader \in {"RawReader", "VideoReader", "OpenCVReader"}
        \/ reader = "DShowCaptureReader" /\ probeB = "pass"
        \/ reader = "EscapiReader" /\ probeC = "pass"

\* C16: over any sequence of RawReader.read calls on a continuous stream, each
\* call takes exactly L = width * height * 3 bytes from stdin, none of them
\* from the frame that follows, so the k-th call (k from 0) returns the stream
\* bytes [k * L, (k + 1) * L), however the channel cuts the stream into chunks.
C16_FramesStayAligned ==
    rawpc = "idle" =>
        /\ stdinPos = rawReads * rawLen
        /\ rawReads > 0 =>
              /\ rawStart = (rawReads - 1) * rawLen
              /\ rawResult.status = "ok"
              /\ rawResult.data = StdinBytes((rawReads - 1) * rawLen, rawLen)

\* C11 as stated: RawReader and VideoReader always report ready, and a read
\* made right after is_ready() returned True on a DShowCaptureReader or an
\* EscapiReader returns a frame.
C11_ReadyMeansFrame ==
    /\ (reader \in {"RawReader", "VideoReader"} /\ lastCall = "is_ready")
           => lastRet = "true"
    /\ (reader \in {"DShowCaptureReader", "EscapiReader"} /\ ~Closed(reader))
           => readAfterReady # "noframe"

\* C11, amended: RawReader and VideoReader always report ready.  An
\* EscapiReader that was not closed reports ready only when its outstanding
\* capture is done, and a read made right after returns a frame.  A
\* DShowCaptureReader reports ready when the device is capturing, which says
\* nothing about a frame: the read made right after may return no frame.
C11_ReadyMeansFrameForEscapi ==
    /\ (reader \in {"RawReader", "VideoReader"} /\ lastCall = "is_ready")
           => lastRet = "true"
    /\ (reader = "EscapiReader" /\ ~Closed(reader)) =>
           /\ readAfterReady # "noframe"
           /\ RightAfterReady => capDone /\ escPending = 0
    /\ (reader = "DShowCaptureReader" /\ RightAfterReady) => capturing

C11_Witness ==
    /\ reader = "EscapiReader" /\ ~Closed(reader)
    /\ lastCall = "read"
    /\ readAfterReady = "frame"
    /\ escFrames = 1

\* C15: an EscapiReader that was not closed has, after its construction and
\* after any is_ready and read calls, exactly one capture request outstanding,
\* either pending or done and not yet read.  A read that finds it not done
\* returns (False, None) and asks for nothing; a read that finds it done
\* returns the frame and asks for exactly one new capture; so no capture is
\* ever asked for while another is pending, and a read is always possible.
C15_OneOutstandingCapture ==
    (reader = "EscapiReader" /\ ~Closed(reader)) =>
        /\ escPending + (IF capDone THEN 1 ELSE 0) = 1
        /\ ~escOverlap
        /\ escIssued = escFrames + 1
        /\ lastCall = "read" => lastRet \in {"frame", "noframe"}
        /\ calls < MaxCalls => ENABLED UseRead

C15_Witness ==
    /\ reader = "EscapiReader" /\ ~Closed(reader)
    /\ lastCall = "read" /\ lastRet = "noframe"
    /\ escFrames = 1 /\ escIssued = 2
    /\ escPending = 1

\* C19: once InputReader.__init__ has returned, no is_open, is_ready, read or
\* close call changes self.reader; each call goes to that same reader, and
\* each close call makes exactly one close() call on it.
C19_ReaderNeverReplaced ==
    [][pc = "returned" =>
          /\ reader' = reader
          /\ calls' # calls =>
                /\ calls' = calls + 1
                /\ lastTarget' = reader
                /\ lastCall' \in {"is_open", "is_ready", "read", "close"}
          /\ releaseCalls' - releaseCalls = closeCalls' - closeCalls
          /\ closeCalls' - closeCalls =
                (IF calls' # calls /\ lastCall' = "close" THEN 1 ELSE 0)]_vars

C19_Witness ==
    /\ pc = "returned"
    /\ closeCalls = 2 /\ releaseCalls = 2
    /\ calls = 4
    /\ lastCall = "read"
    /\ lastTarget = reader
    /\ reader = "OpenCVReader"

====
